---- MODULE Spec2Model ----
(***************************************************************************)
(* The memories of a wasm module (src/src/module/memories.rs):             *)
(* ModuleMemories, an arena of Memory records with tombstone deletion,     *)
(* the parse adapter Module::parse_memories, the emit adapters             *)
(* (Emit for Memory, Emit for ModuleMemories) and MemoryData, the          *)
(* initializer segments of one memory.                                     *)
(*                                                                         *)
(* Option<T> is a sequence of length 0 (None) or 1 (Some).  An id is the   *)
(* 0-based index of its slot; slot i of the arena is arena[i + 1].         *)
(***************************************************************************)
EXTENDS Integers, Sequences, FiniteSets, TLC

VARIABLES
    arena,      \* ModuleMemories.arena: the slots, each <<>> (tombstone) or <<memory>>
    call,       \* the last call: its name, arguments, result, and the context it wrote
    returned,   \* history: the ids the creation calls returned, in call order
    deleted,    \* history: the ids delete() was called on while live
    expect,     \* history: live id -> the record data its owner stored under it
    loaded,     \* history: <<section>> parsed into an empty collection, untouched since
    segCalls    \* history: the add_absolute / add_relative calls, in call order

vars == <<arena, call, returned, deleted, expect, loaded, segCalls>>

(***************************************************************************)
(* Bounds and input sets.                                                  *)
(***************************************************************************)
MaxMemories == 3
MaxSegments == 3

\* A u32 offset is kept as its two 16-bit halves <<high, low>>, so that the
\* whole range 0 .. 2^32 - 1 is there; a page count is a number below 2^31.
Half == 2 ^ 16
u32(high, low) == <<high, low>>

None == <<>>
Some(v) == <<v>>

\* Page counts of the collection's operations, and the wider ones of the
\* specifications that exercise one memory or one section.
InitialVals == {1}
MaximumVals == {None, Some(2)}
WideInitialVals == {0, 1, 127, 128, 16384, 2147483647}
WideMaximumVals == {None, Some(0), Some(2), Some(300), Some(2147483647)}
SectionInitialVals == {1, 128}
SectionMaximumVals == {300}
ImportIds == {0}
GlobalIds == {0, 1}
Positions == {u32(0, 16), u32(Half \div 2 - 1, Half - 1), u32(Half \div 2, 0),
              u32(Half - 1, Half - 1)}
Payloads == {<<>>, <<1, 2>>}

(***************************************************************************)
(* Memory and MemoryData.                                                  *)
(***************************************************************************)
MemoryData_default == [absolute |-> <<>>, relative |-> <<>>]

Memory(id, shared, initial, maximum, import, data) ==
    [id |-> id, shared |-> shared, initial |-> initial, maximum |-> maximum,
     import |-> import, data |-> data]

\* Mutant: the finalization hook leaves the initializer data in place.
on_delete_KeepsData(m) == m

on_delete(m) == [m EXCEPT !.data = MemoryData_default]

\* Mutant: a position above the largest i32 becomes the largest i32.
as_i32_Saturating(pos) ==
    IF pos[1] >= Half \div 2 THEN (Half \div 2 - 1) * Half + (Half - 1)
    ELSE pos[1] * Half + pos[2]

\* `pos as i32`: the same 32 bits, read as a signed number.
as_i32(pos) ==
    (IF pos[1] >= Half \div 2 THEN pos[1] - Half ELSE pos[1]) * Half + pos[2]

InitExpr_Value(v) == [tag |-> "Value", val |-> v]

InitExpr_Global(id) == [tag |-> "Global", val |-> id]

add_absolute(d, pos, data) == [d EXCEPT !.absolute = Append(@, <<pos, data>>)]

add_relative(d, id, data) == [d EXCEPT !.relative = Append(@, <<id, data>>)]

\* Mutant: the two groups chained the other way round.
emit_data_RelativeFirst(m) ==
    LET absolute == [k \in 1 .. Len(m.data.absolute) |->
                        <<InitExpr_Value(as_i32(m.data.absolute[k][1])),
                          m.data.absolute[k][2]>>]
        relative == [k \in 1 .. Len(m.data.relative) |->
                        <<InitExpr_Global(m.data.relative[k][1]),
                          m.data.relative[k][2]>>]
    IN  relative \o absolute

\* Memory::emit_data: the absolute segments chained with the relative ones.
emit_data(m) ==
    LET absolute == [k \in 1 .. Len(m.data.absolute) |->
                        <<InitExpr_Value(as_i32(m.data.absolute[k][1])),
                          m.data.absolute[k][2]>>]
        relative == [k \in 1 .. Len(m.data.relative) |->
                        <<InitExpr_Global(m.data.relative[k][1]),
                          m.data.relative[k][2]>>]
    IN  absolute \o relative

\* Mutant: a global that several relative segments use is yielded once.
globals_Deduplicated(d) ==
    LET first == {k \in 1 .. Len(d.relative) :
                     \A j \in 1 .. (k - 1) : d.relative[j][1] # d.relative[k][1]}
        keep == SelectSeq([k \in 1 .. Len(d.relative) |-> k], LAMBDA k : k \in first)
    IN  [k \in 1 .. Len(keep) |-> d.relative[keep[k]][1]]

\* MemoryData::globals: the global of each relative segment.
globals(d) == [k \in 1 .. Len(d.relative) |-> d.relative[k][1]]

\* Mutant: one empty list is enough.
is_empty_Either(d) == Len(d.absolute) = 0 \/ Len(d.relative) = 0

\* MemoryData::is_empty
is_empty(d) == Len(d.absolute) = 0 /\ Len(d.relative) = 0

\* Mutant: the two groups chained the other way round.
into_iter_RelativeFirst(d) ==
    LET absolute == [k \in 1 .. Len(d.absolute) |->
                        <<InitExpr_Value(as_i32(d.absolute[k][1])), d.absolute[k][2]>>]
        relative == [k \in 1 .. Len(d.relative) |->
                        <<InitExpr_Global(d.relative[k][1]), d.relative[k][2]>>]
    IN  relative \o absolute

\* IntoIterator for MemoryData: consumes the data, the absolute segments
\* chained with the relative ones.
into_iter(d) ==
    LET absolute == [k \in 1 .. Len(d.absolute) |->
                        <<InitExpr_Value(as_i32(d.absolute[k][1])), d.absolute[k][2]>>]
        relative == [k \in 1 .. Len(d.relative) |->
                        <<InitExpr_Global(d.relative[k][1]), d.relative[k][2]>>]
    IN  absolute \o relative

(***************************************************************************)
(* TombstoneArena<Memory>: a growable sequence of slots, each live or      *)
(* tombstoned; a tombstoned slot holds nothing and keeps its index.        *)
(***************************************************************************)
Tombstoned == <<>>

next_id(a) == Len(a)

arena_alloc(a, val) == [arena |-> Append(a, <<val>>), id |-> Len(a)]

arena_contains(a, id) == id \in 0 .. (Len(a) - 1) /\ a[id + 1] # Tombstoned

\* Index / IndexMut: the record, or an abort on an out-of-range or tombstoned slot.
arena_index(a, id) ==
    IF arena_contains(a, id) THEN [ok |-> TRUE, mem |-> a[id + 1][1]]
                             ELSE [ok |-> FALSE]

\* The slot becomes a tombstone; the finalization hook runs once on its record,
\* which is then discarded.
arena_delete(a, id) ==
    [arena |-> [a EXCEPT ![id + 1] = Tombstoned],
     finalized |-> on_delete(a[id + 1][1])]

RECURSIVE arena_iter(_)
arena_iter(a) ==
    IF a = <<>> THEN <<>>
    ELSE LET front == arena_iter(SubSeq(a, 1, Len(a) - 1))
             id == Len(a) - 1
         IN  IF a[Len(a)] = Tombstoned THEN front
             ELSE Append(front, <<id, a[Len(a)][1]>>)

(***************************************************************************)
(* ModuleMemories.                                                         *)
(***************************************************************************)
\* Mutant: the import reference is not stored in the new record.
add_import_DropsImport(a, shared, initial, maximum, import) ==
    LET id == next_id(a)
        r == arena_alloc(a, Memory(id, shared, initial, maximum, None,
                                   MemoryData_default))
    IN  [arena |-> r.arena, id |-> id]

add_import(a, shared, initial, maximum, import) ==
    LET id == next_id(a)
        r == arena_alloc(a, Memory(id, shared, initial, maximum, Some(import),
                                   MemoryData_default))
    IN  [arena |-> r.arena, id |-> id]

\* Mutant: a creation takes over the first tombstoned slot instead of a new one.
add_local_ReusesTombstone(a, shared, initial, maximum) ==
    LET dead == {i \in 0 .. (Len(a) - 1) : a[i + 1] = Tombstoned}
        id == IF dead = {} THEN next_id(a)
              ELSE CHOOSE i \in dead : \A j \in dead : i <= j
        m == Memory(id, shared, initial, maximum, None, MemoryData_default)
    IN  [arena |-> IF dead = {} THEN Append(a, <<m>>) ELSE [a EXCEPT ![id + 1] = <<m>>],
         id |-> id]

add_local(a, shared, initial, maximum) ==
    LET id == next_id(a)
        r == arena_alloc(a, Memory(id, shared, initial, maximum, None,
                                   MemoryData_default))
    IN  [arena |-> r.arena, id |-> id]

get(a, id) == arena_index(a, id)

get_mut(a, id) == arena_index(a, id)

\* Mutant: the slot is removed from the sequence and the later ones move down.
delete_Shifting(a, id) ==
    [arena |-> SubSeq(a, 1, id) \o SubSeq(a, id + 2, Len(a)),
     finalized |-> on_delete(a[id + 1][1])]

\* Mutant: the record is finalized and stays in its slot, which is not marked.
delete_ClearsOnly(a, id) ==
    [arena |-> [a EXCEPT ![id + 1] = <<on_delete(a[id + 1][1])>>],
     finalized |-> on_delete(a[id + 1][1])]

delete(a, id) == arena_delete(a, id)

\* Mutant: the live memories are yielded from the newest slot to the oldest.
iter_Reversed(a) ==
    [k \in 1 .. Len(arena_iter(a)) |-> arena_iter(a)[Len(arena_iter(a)) + 1 - k][2]]

iter(a) == [k \in 1 .. Len(arena_iter(a)) |-> arena_iter(a)[k][2]]

iter_mut(a) == [k \in 1 .. Len(arena_iter(a)) |-> arena_iter(a)[k][2]]

(***************************************************************************)
(* The emit context: the encoder's bytes (the body of the section being    *)
(* written), the sections started, and the index-mapping table.  Integers  *)
(* are written as unsigned LEB128.                                         *)
(***************************************************************************)
EmitContext_new == [encoder |-> <<>>, sections |-> <<>>, indices |-> <<>>]

RECURSIVE leb128(_)
leb128(v) ==
    IF v < 128 THEN <<v>>
    ELSE <<(v % 128) + 128>> \o leb128(v \div 128)

encoder_byte(cx, b) == [cx EXCEPT !.encoder = Append(@, b)]

encoder_u32(cx, v) == [cx EXCEPT !.encoder = @ \o leb128(v)]

encoder_usize(cx, n) == encoder_u32(cx, n)

start_section(cx, id) == [cx EXCEPT !.sections = Append(@, id)]

indices_push_memory(cx, id) == [cx EXCEPT !.indices = Append(@, id)]

\* Mutant: the tags of the shared and the unshared memory with a maximum swapped.
Memory_emit_SwappedTags(m, cx) ==
    IF m.maximum # None
    THEN encoder_u32(
             encoder_u32(encoder_byte(cx, IF m.shared THEN 1 ELSE 3), m.initial),
             m.maximum[1])
    ELSE encoder_u32(encoder_byte(cx, 0), m.initial)

\* Mutant: the shared flag is written as bit 1 of the tag whether or not there
\* is a maximum.
Memory_emit_SharedBit(m, cx) ==
    IF m.maximum # None
    THEN encoder_u32(
             encoder_u32(encoder_byte(cx, IF m.shared THEN 3 ELSE 1), m.initial),
             m.maximum[1])
    ELSE encoder_u32(encoder_byte(cx, IF m.shared THEN 2 ELSE 0), m.initial)

\* impl Emit for Memory
Memory_emit(m, cx) ==
    IF m.maximum # None
    THEN LET max == m.maximum[1]
         IN  encoder_u32(
                 encoder_u32(encoder_byte(cx, IF m.shared THEN 3 ELSE 1), m.initial),
                 max)
    ELSE encoder_u32(encoder_byte(cx, 0), m.initial)

is_local(m) == m.import = None

\* The body of the for loop of ModuleMemories::emit, over the filtered iterator.
RECURSIVE emit_loop(_, _)
emit_loop(mems, cx) ==
    IF mems = <<>> THEN cx
    ELSE emit_loop(Tail(mems),
                   Memory_emit(Head(mems), indices_push_memory(cx, Head(mems).id)))

\* Mutant: the count takes the imported memories in.
ModuleMemories_emit_CountsAll(a, cx) ==
    LET locals == SelectSeq(iter(a), is_local)
        memories == Len(iter(a))
    IN  IF memories = 0 THEN cx
        ELSE emit_loop(locals, encoder_usize(start_section(cx, "Memory"), memories))

\* Mutant: no early return; a section with count 0 is written.
ModuleMemories_emit_NoEarlyReturn(a, cx) ==
    LET locals == SelectSeq(iter(a), is_local)
        memories == Len(locals)
    IN  emit_loop(locals, encoder_usize(start_section(cx, "Memory"), memories))

\* Mutant: the loop runs over every live memory, the imported ones too.
ModuleMemories_emit_LoopUnfiltered(a, cx) ==
    LET locals == SelectSeq(iter(a), is_local)
        memories == Len(locals)
    IN  IF memories = 0 THEN cx
        ELSE emit_loop(iter(a), encoder_usize(start_section(cx, "Memory"), memories))

\* impl Emit for ModuleMemories
ModuleMemories_emit(a, cx) ==
    LET locals == SelectSeq(iter(a), is_local)
        memories == Len(locals)
    IN  IF memories = 0 THEN cx
        ELSE emit_loop(locals, encoder_usize(start_section(cx, "Memory"), memories))

(***************************************************************************)
(* The memory section reader.  A wire record is [flags, initial, maximum]; *)
(* bit 0 of flags says a maximum follows, bit 1 says shared, and any other *)
(* bit makes the record malformed.                                         *)
(***************************************************************************)
WireRecord(flags, initial, maximum) ==
    [flags |-> flags, initial |-> initial, maximum |-> maximum]

read_memory_type(w) ==
    IF w.flags \notin 0 .. 3 \/ ((w.flags % 2 = 1) # (w.maximum # None))
    THEN [ok |-> FALSE, error |-> [malformed |-> w]]
    ELSE [ok |-> TRUE, shared |-> (w.flags \div 2) % 2 = 1,
          initial |-> w.initial, maximum |-> w.maximum]

\* The reader on bytes: an unsigned LEB128 number, one record, a whole section
\* body (the count, then that many records).
RECURSIVE read_var_u32(_)
read_var_u32(bytes) ==
    IF bytes = <<>> THEN [ok |-> FALSE, val |-> 0, rest |-> <<>>]
    ELSE IF Head(bytes) < 128 THEN [ok |-> TRUE, val |-> Head(bytes), rest |-> Tail(bytes)]
    ELSE LET r == read_var_u32(Tail(bytes))
         IN  [ok |-> r.ok, val |-> (Head(bytes) - 128) + 128 * r.val, rest |-> r.rest]

read_record(bytes) ==
    IF bytes = <<>> THEN [ok |-> FALSE, rest |-> <<>>]
    ELSE LET flags == Head(bytes)
             initial == read_var_u32(Tail(bytes))
             maximum == read_var_u32(initial.rest)
         IN  IF flags % 2 = 1
             THEN [ok |-> initial.ok /\ maximum.ok,
                   record |-> WireRecord(flags, initial.val, Some(maximum.val)),
                   rest |-> maximum.rest]
             ELSE [ok |-> initial.ok,
                   record |-> WireRecord(flags, initial.val, None),
                   rest |-> initial.rest]

RECURSIVE read_records(_, _)
read_records(bytes, n) ==
    IF n = 0 THEN [ok |-> TRUE, records |-> <<>>, rest |-> bytes]
    ELSE LET r == read_record(bytes)
         IN  IF ~r.ok THEN [ok |-> FALSE, records |-> <<>>, rest |-> <<>>]
             ELSE LET t == read_records(r.rest, n - 1)
                  IN  [ok |-> t.ok, records |-> <<r.record>> \o t.records,
                       rest |-> t.rest]

read_section(bytes) ==
    LET count == read_var_u32(bytes)
        body == read_records(count.rest, count.val)
    IN  IF count.ok /\ body.ok /\ body.rest = <<>>
        THEN [ok |-> TRUE, count |-> count.val, records |-> body.records]
        ELSE [ok |-> FALSE, count |-> 0, records |-> <<>>]

\* Mutant: the shared flag of the record is not handed on.
RECURSIVE parse_memories_DropsShared(_, _, _)
parse_memories_DropsShared(a, section, ids) ==
    IF section = <<>>
    THEN [arena |-> a, ids |-> ids, ok |-> TRUE, error |-> None, new |-> <<>>]
    ELSE LET m == read_memory_type(Head(section))
         IN  IF ~m.ok
             THEN [arena |-> a, ids |-> ids, ok |-> FALSE, error |-> Some(m.error),
                   new |-> <<>>]
             ELSE LET r == add_local(a, FALSE, m.initial, m.maximum)
                      rest == parse_memories_DropsShared(r.arena, Tail(section),
                                                         Append(ids, r.id))
                  IN  [rest EXCEPT !.new = <<r.id>> \o @]

\* Mutant: the position of the record in the section is recorded, not the id.
RECURSIVE parse_memories_PushesIndex(_, _, _)
parse_memories_PushesIndex(a, section, ids) ==
    IF section = <<>>
    THEN [arena |-> a, ids |-> ids, ok |-> TRUE, error |-> None, new |-> <<>>]
    ELSE LET m == read_memory_type(Head(section))
         IN  IF ~m.ok
             THEN [arena |-> a, ids |-> ids, ok |-> FALSE, error |-> Some(m.error),
                   new |-> <<>>]
             ELSE LET r == add_local(a, m.shared, m.initial, m.maximum)
                      rest == parse_memories_PushesIndex(r.arena, Tail(section),
                                                         Append(ids, Len(ids)))
                  IN  [rest EXCEPT !.new = <<r.id>> \o @]

\* Mutant: a malformed record is skipped and the loop goes on.
RECURSIVE parse_memories_SkipsMalformed(_, _, _)
parse_memories_SkipsMalformed(a, section, ids) ==
    IF section = <<>>
    THEN [arena |-> a, ids |-> ids, ok |-> TRUE, error |-> None, new |-> <<>>]
    ELSE LET m == read_memory_type(Head(section))
         IN  IF ~m.ok
             THEN parse_memories_SkipsMalformed(a, Tail(section), ids)
             ELSE LET r == add_local(a, m.shared, m.initial, m.maximum)
                      rest == parse_memories_SkipsMalformed(r.arena, Tail(section),
                                                            Append(ids, r.id))
                  IN  [rest EXCEPT !.new = <<r.id>> \o @]

\* Mutant: the section is decoded as a whole first, so that a malformed record
\* leaves the collection and the table as they were.
parse_memories_RollsBack(a, section, ids) ==
    LET bad == {k \in 1 .. Len(section) : ~read_memory_type(section[k]).ok}
    IN  IF bad # {}
        THEN [arena |-> a, ids |-> ids, ok |-> FALSE,
              error |-> Some(read_memory_type(
                            section[CHOOSE k \in bad : \A j \in bad : k <= j]).error),
              new |-> <<>>]
        ELSE parse_memories_SkipsMalformed(a, section, ids)

\* Module::parse_memories: the loop stops at the first malformed record (`m?`),
\* keeping what the records before it added.
RECURSIVE parse_memories(_, _, _)
parse_memories(a, section, ids) ==
    IF section = <<>>
    THEN [arena |-> a, ids |-> ids, ok |-> TRUE, error |-> None, new |-> <<>>]
    ELSE LET m == read_memory_type(Head(section))
         IN  IF ~m.ok
             THEN [arena |-> a, ids |-> ids, ok |-> FALSE, error |-> Some(m.error),
                   new |-> <<>>]
             ELSE LET r == add_local(a, m.shared, m.initial, m.maximum)
                      rest == parse_memories(r.arena, Tail(section),
                                             Append(ids, r.id))
                  IN  [rest EXCEPT !.new = <<r.id>> \o @]

Init ==
    /\ arena = <<>>
    /\ call = [op |-> "new"]
    /\ returned = <<>>
    /\ deleted = {}
    /\ expect = <<>>
    /\ loaded = <<>>
    /\ segCalls = <<>>

AddImport(shared, initial, maximum, import) ==
    /\ Len(arena) < MaxMemories
    /\ LET r == add_import(arena, shared, initial, maximum, import)
       IN  /\ arena' = r.arena
           /\ call' = [op |-> "add_import", id |-> r.id, shared |-> shared,
                       initial |-> initial, maximum |-> maximum,
                       import |-> Some(import)]
           /\ returned' = Append(returned, r.id)
           /\ expect' = (r.id :> Memory(r.id, shared, initial, maximum, Some(import),
                                        MemoryData_default)) @@ expect
    /\ loaded' = <<>>
    /\ UNCHANGED <<deleted, segCalls>>

AddLocal(shared, initial, maximum) ==
    /\ Len(arena) < MaxMemories
    /\ LET r == add_local(arena, shared, initial, maximum)
       IN  /\ arena' = r.arena
           /\ call' = [op |-> "add_local", id |-> r.id, shared |-> shared,
                       initial |-> initial, maximum |-> maximum, import |-> None]
           /\ returned' = Append(returned, r.id)
           /\ expect' = (r.id :> Memory(r.id, shared, initial, maximum, None,
                                        MemoryData_default)) @@ expect
    /\ loaded' = <<>>
    /\ UNCHANGED <<deleted, segCalls>>

\* delete(id).  On an id that is not live (tombstoned or out of range) the
\* policy is open (no effect, or a failure); either way the collection is left
\* as it was.
Delete(id) ==
    /\ IF arena_contains(arena, id)
       THEN LET r == delete(arena, id)
            IN  /\ arena' = r.arena
                /\ call' = [op |-> "delete", id |-> id, ok |-> TRUE,
                            finalized |-> r.finalized.data]
                /\ deleted' = deleted \cup {id}
                /\ expect' = [i \in DOMAIN expect \ {id} |-> expect[i]]
       ELSE /\ call' = [op |-> "delete", ok |-> FALSE]
            /\ UNCHANGED <<arena, deleted, expect>>
    /\ loaded' = <<>>
    /\ UNCHANGED <<returned, segCalls>>

\* get_mut(id) followed by a write of the public fields shared, initial, maximum.
SetLimits(id, shared, initial, maximum) ==
    /\ get_mut(arena, id).ok
    /\ <<shared, initial, maximum>> # <<get_mut(arena, id).mem.shared,
            get_mut(arena, id).mem.initial, get_mut(arena, id).mem.maximum>>
    /\ LET m == [get_mut(arena, id).mem EXCEPT !.shared = shared,
                     !.initial = initial, !.maximum = maximum]
       IN  /\ arena' = [arena EXCEPT ![id + 1] = <<m>>]
           /\ expect' = [expect EXCEPT ![id] = m]
    /\ call' = [op |-> "get_mut"]
    /\ loaded' = <<>>
    /\ UNCHANGED <<returned, deleted, segCalls>>

\* get_mut(id) followed by a write of the public field import.
SetImport(id, import) ==
    /\ get_mut(arena, id).ok
    /\ import # get_mut(arena, id).mem.import
    /\ LET m == [get_mut(arena, id).mem EXCEPT !.import = import]
       IN  /\ arena' = [arena EXCEPT ![id + 1] = <<m>>]
           /\ expect' = [expect EXCEPT ![id] = m]
    /\ call' = [op |-> "get_mut"]
    /\ loaded' = <<>>
    /\ UNCHANGED <<returned, deleted, segCalls>>

\* What the caller of parse_memories handed over for each id it got back.
RECURSIVE expect_parsed(_, _, _)
expect_parsed(e, new, section) ==
    IF new = <<>> THEN e
    ELSE LET m == read_memory_type(Head(section))
             rec == Memory(Head(new), m.shared, m.initial, m.maximum, None,
                           MemoryData_default)
         IN  expect_parsed((Head(new) :> rec) @@ e, Tail(new), Tail(section))

\* emit(cx) on a fresh context.
Emit ==
    /\ call' = [op |-> "emit", cx |-> ModuleMemories_emit(arena, EmitContext_new)]
    /\ UNCHANGED <<arena, returned, deleted, expect, loaded, segCalls>>

\* parse_memories(section, ids): ids is the caller's table, which may already
\* hold entries.
ParseMemories(section, ids) ==
    /\ Len(arena) + Len(section) <= MaxMemories
    /\ LET r == parse_memories(arena, section, ids)
       IN  /\ arena' = r.arena
           /\ call' = [op |-> "parse_memories", section |-> section, before |-> ids,
                       ids |-> r.ids, ok |-> r.ok, error |-> r.error,
                       was |-> Len(arena)]
           /\ returned' = returned \o r.new
           /\ expect' = expect_parsed(expect, r.new, section)
           /\ loaded' = IF arena = <<>> /\ r.ok THEN <<section>> ELSE <<>>
    /\ UNCHANGED <<deleted, segCalls>>

\* Memory::emit on a fresh context, for the memory under id.
EmitMemory(id) ==
    /\ get(arena, id).ok
    /\ call' = [op |-> "emit_memory", id |-> id,
                cx |-> Memory_emit(get(arena, id).mem, EmitContext_new)]
    /\ UNCHANGED <<arena, returned, deleted, expect, loaded, segCalls>>

\* get_mut(id).data.add_absolute(pos, data)
AddAbsolute(id, pos, data) ==
    /\ get_mut(arena, id).ok
    /\ Len(segCalls) < MaxSegments
    /\ LET m == [get_mut(arena, id).mem EXCEPT !.data = add_absolute(@, pos, data)]
       IN  /\ arena' = [arena EXCEPT ![id + 1] = <<m>>]
           /\ expect' = [expect EXCEPT ![id] = m]
    /\ call' = [op |-> "add_absolute"]
    /\ segCalls' = Append(segCalls, [kind |-> "absolute", id |-> id, base |-> pos,
                                     data |-> data])
    /\ loaded' = <<>>
    /\ UNCHANGED <<returned, deleted>>

\* get_mut(id).data.add_relative(global, data)
AddRelative(id, global, data) ==
    /\ get_mut(arena, id).ok
    /\ Len(segCalls) < MaxSegments
    /\ LET m == [get_mut(arena, id).mem EXCEPT !.data = add_relative(@, global, data)]
       IN  /\ arena' = [arena EXCEPT ![id + 1] = <<m>>]
           /\ expect' = [expect EXCEPT ![id] = m]
    /\ call' = [op |-> "add_relative"]
    /\ segCalls' = Append(segCalls, [kind |-> "relative", id |-> id, base |-> global,
                                     data |-> data])
    /\ loaded' = <<>>
    /\ UNCHANGED <<returned, deleted>>

\* get(id).emit_data(), collected.
EmitData(id) ==
    /\ get(arena, id).ok
    /\ call' = [op |-> "emit_data", id |-> id, out |-> emit_data(get(arena, id).mem)]
    /\ UNCHANGED <<arena, returned, deleted, expect, loaded, segCalls>>

\* get(id).data.globals(), collected.
Globals(id) ==
    /\ get(arena, id).ok
    /\ call' = [op |-> "globals", id |-> id, out |-> globals(get(arena, id).mem.data)]
    /\ UNCHANGED <<arena, returned, deleted, expect, loaded, segCalls>>

\* get(id).data.is_empty()
IsEmpty(id) ==
    /\ get(arena, id).ok
    /\ call' = [op |-> "is_empty", id |-> id, out |-> is_empty(get(arena, id).mem.data)]
    /\ UNCHANGED <<arena, returned, deleted, expect, loaded, segCalls>>

\* into_iter() on the data of memory id, collected.  into_iter takes the
\* MemoryData by value and MemoryData cannot be copied, so the data is moved out
\* of the memory, which is left with the default (empty) data; the add calls
\* that built the moved data no longer describe a memory.
IntoIter(id) ==
    /\ get_mut(arena, id).ok
    /\ LET m == get_mut(arena, id).mem
       IN  /\ call' = [op |-> "into_iter", id |-> id, self |-> m.data,
                       out |-> into_iter(m.data)]
           /\ arena' = [arena EXCEPT ![id + 1] = <<[m EXCEPT !.data = MemoryData_default]>>]
           /\ expect' = [expect EXCEPT ![id] = [m EXCEPT !.data = MemoryData_default]]
    /\ segCalls' = SelectSeq(segCalls, LAMBDA c : c.id # id)
    /\ loaded' = <<>>
    /\ UNCHANGED <<returned, deleted>>

Ids == 0 .. MaxMemories

WireRecords(initials, maximums) ==
    {WireRecord(f, i, None) : f \in {0, 2, 4}, i \in initials}
        \cup {WireRecord(f, i, Some(x)) : f \in {1, 3}, i \in initials, x \in maximums}

RECURSIVE SeqsUpTo(_, _)
SeqsUpTo(S, n) ==
    IF n = 0 THEN {<<>>}
    ELSE LET shorter == SeqsUpTo(S, n - 1)
         IN  shorter \cup {Append(q, x) : q \in shorter, x \in S}

\* The index-mapping table handed to parse_memories: the ids of the imported
\* memories, which the import section's parser pushed before.
imported_ids(a) ==
    LET imports == SelectSeq(iter(a), LAMBDA m : m.import # None)
    IN  [k \in 1 .. Len(imports) |-> imports[k].id]

Next ==
    \/ \E shared \in BOOLEAN, initial \in InitialVals, maximum \in MaximumVals,
          import \in ImportIds :
           AddImport(shared, initial, maximum, import)
    \/ \E shared \in BOOLEAN, initial \in InitialVals, maximum \in MaximumVals :
           AddLocal(shared, initial, maximum)
    \/ \E id \in Ids : Delete(id)
    \/ \E id \in Ids, shared \in BOOLEAN, initial \in InitialVals,
          maximum \in MaximumVals :
           SetLimits(id, shared, initial, maximum)
    \/ \E id \in Ids, import \in {None} \cup {Some(i) : i \in ImportIds} :
           SetImport(id, import)
    \/ Emit
    \/ \E section \in SeqsUpTo(WireRecords(InitialVals, {2}),
                                MaxMemories - Len(arena)) :
           ParseMemories(section, imported_ids(arena))

Spec == Init /\ [][Next]_vars

\* One memory of any shape, emitted alone.
NextMemory ==
    \/ \E shared \in BOOLEAN, initial \in WideInitialVals, maximum \in WideMaximumVals,
          import \in ImportIds :
           arena = <<>> /\ AddImport(shared, initial, maximum, import)
    \/ \E shared \in BOOLEAN, initial \in WideInitialVals, maximum \in WideMaximumVals :
           arena = <<>> /\ AddLocal(shared, initial, maximum)
    \/ \E id \in Ids : EmitMemory(id)
    \/ Emit

SpecMemory == Init /\ [][NextMemory]_vars

\* Module load followed by serialization: one section parsed into the empty
\* collection, then emitted.
NextRoundTrip ==
    \/ \E section \in SeqsUpTo(WireRecords(SectionInitialVals, SectionMaximumVals),
                                MaxMemories) :
           call.op = "new" /\ ParseMemories(section, <<>>)
    \/ Emit

SpecRoundTrip == Init /\ [][NextRoundTrip]_vars

\* The initializer data of one local memory.
NextData ==
    \/ arena = <<>> /\ AddLocal(FALSE, 1, None)
    \/ \E id \in Ids, pos \in Positions, data \in Payloads : AddAbsolute(id, pos, data)
    \/ \E id \in Ids, global \in GlobalIds, data \in Payloads :
           AddRelative(id, global, data)
    \/ \E id \in Ids : EmitData(id)
    \/ \E id \in Ids : Globals(id)
    \/ \E id \in Ids : IsEmpty(id)
    \/ \E id \in Ids : IntoIter(id)

SpecData == Init /\ [][NextData]_vars

\* Local memories that receive initializer data and are deleted.
NextDelete ==
    \/ Len(arena) < MaxMemories /\ AddLocal(FALSE, 1, None)
    \/ \E id \in Ids : AddAbsolute(id, u32(0, 16), <<1, 2>>)
    \/ \E id \in Ids : AddRelative(id, 0, <<>>)
    \/ \E id \in Ids : Delete(id)

SpecDelete == Init /\ [][NextDelete]_vars

(***************************************************************************)
(* Properties.                                                             *)
(***************************************************************************)
RecordData(m) == <<m.shared, m.initial, m.maximum, m.import, m.data>>

LiveIds == {i \in 0 .. (Len(arena) - 1) : arena[i + 1] # Tombstoned}

\* C1 (id stability): every id a creation call returned, until it is deleted,
\* resolves through get to the record data stored under it (shared, initial,
\* maximum, import, initializer data: the creation's arguments, or what its
\* owner wrote through get_mut since); no call on one id, a delete included,
\* changes what get returns for another live id.
C1_IdStability ==
    \A k \in 1 .. Len(returned) :
        LET id == returned[k]
        IN  id \notin deleted =>
                /\ get(arena, id).ok
                /\ RecordData(get(arena, id).mem) = RecordData(expect[id])

\* A delete of a slot between two live ones has just returned.
C1_Witness ==
    /\ call.op = "delete" /\ call.ok
    /\ \E i, j \in LiveIds : i < call.id /\ call.id < j

\* C2 (tombstone isolation): once delete(id) was called on a live id, in every
\* later state get(id) and get_mut(id) abort and neither iter() nor iter_mut()
\* yields a memory with that id.
C2_TombstoneIsolation ==
    \A id \in deleted :
        /\ ~get(arena, id).ok
        /\ ~get_mut(arena, id).ok
        /\ \A k \in 1 .. Len(iter(arena)) : iter(arena)[k].id # id
        /\ \A k \in 1 .. Len(iter_mut(arena)) : iter_mut(arena)[k].id # id

\* An id was deleted and creations or writes followed, with live memories around it.
C2_Witness ==
    /\ deleted # {}
    /\ call.op \in {"add_local", "add_import", "get_mut", "parse_memories"}
    /\ \E id \in deleted : \E i, j \in LiveIds : i < id /\ id < j

\* C3 (ids are never reused): the ids returned by the creation calls (add_import,
\* add_local, and the add_local calls of parse_memories) are pairwise different,
\* deleted ones included, and a deleted id is never live again.
C3_IdsNeverReused ==
    /\ \A j, k \in 1 .. Len(returned) : j # k => returned[j] # returned[k]
    /\ \A id \in deleted : id \notin LiveIds

\* A creation right after the deletion of the newest memory.
C3_Witness ==
    /\ call.op \in {"add_local", "add_import"}
    /\ call.id > 0
    /\ (call.id - 1) \in deleted
\* The tag, initial and maximum the table of the memory encoding gives a memory.
TableRecord(m) ==
    WireRecord(IF m.maximum = None THEN 0 ELSE IF m.shared THEN 3 ELSE 1,
               m.initial, m.maximum)

\* C4 (per-memory encoding): emitting a memory writes exactly one record: the tag
\* byte 0x00 then initial when maximum is absent, 0x01 then initial then maximum
\* when maximum is present and shared is false, 0x03 then initial then maximum
\* when maximum is present and shared is true; the tag is one of 0x00, 0x01,
\* 0x03 and maximum is written exactly when the tag is 0x01 or 0x03.  Nothing
\* else of the context is touched.  (shared = false, initial = 1, maximum = 2
\* gives 0x01 0x01 0x02; without the maximum, 0x00 0x01.)
C4_MemoryEncoding ==
    call.op = "emit_memory" =>
        LET m == get(arena, call.id).mem
            bytes == call.cx.encoder
            r == read_record(bytes)
        IN  /\ bytes[1] \in {0, 1, 3}
            /\ r.ok /\ r.rest = <<>>
            /\ r.record = TableRecord(m)
            /\ (r.record.maximum # None) = (bytes[1] \in {1, 3})
            /\ call.cx.indices = <<>> /\ call.cx.sections = <<>>
            /\ (~m.shared /\ m.initial = 1 /\ m.maximum = Some(2)) => bytes = <<1, 1, 2>>
            /\ (~m.shared /\ m.initial = 1 /\ m.maximum = None) => bytes = <<0, 1>>

\* A shared memory with a maximum and a two-byte initial was emitted.
C4_Witness ==
    /\ call.op = "emit_memory"
    /\ get(arena, call.id).mem.shared
    /\ get(arena, call.id).mem.maximum = Some(300)
    /\ get(arena, call.id).mem.initial = 128
    /\ call.cx.encoder = <<3, 128, 1, 172, 2>>

LocalIds == {i \in LiveIds : arena[i + 1][1].import = None}

RECURSIVE Ascending(_)
Ascending(S) ==
    IF S = {} THEN <<>>
    ELSE LET least == CHOOSE i \in S : \A j \in S : i <= j
         IN  <<least>> \o Ascending(S \ {least})

\* C5 (section body): when at least one live memory has no import, the emitted
\* body is a count equal to the number of live memories without import, then
\* exactly that many records, the k-th being the record of the k-th such memory
\* in ascending id order; tombstoned and imported memories give no record.
C5_SectionBody ==
    (call.op = "emit" /\ LocalIds # {}) =>
        LET ids == Ascending(LocalIds)
            s == read_section(call.cx.encoder)
        IN  /\ s.ok
            /\ s.count = Cardinality(LocalIds)
            /\ Len(s.records) = s.count
            /\ \A k \in 1 .. Len(ids) : s.records[k] = TableRecord(arena[ids[k] + 1][1])
            /\ call.cx.sections = <<"Memory">>

\* Two local memories of different shape around a tombstone were emitted.
C5_Witness ==
    /\ call.op = "emit"
    /\ LocalIds = {0, 2}
    /\ 1 \in deleted
    /\ TableRecord(arena[1][1]) # TableRecord(arena[3][1])

\* C6 (import omission): with no live memory without import (the collection is
\* empty, holds imported memories only, or its local ones are all deleted)
\* emit writes nothing: no section is started, no byte (no zero count) is
\* written, no id is pushed to the index-mapping table.
C6_ImportOmission ==
    (call.op = "emit" /\ LocalIds = {}) =>
        /\ call.cx.encoder = <<>>
        /\ call.cx.sections = <<>>
        /\ call.cx.indices = <<>>

\* A collection of one imported memory and deleted local ones was emitted.
C6_Witness ==
    /\ call.op = "emit"
    /\ LocalIds = {}
    /\ LiveIds # {}
    /\ deleted # {}

\* C7 (emit index mapping): the ids emit pushes to the index-mapping table are
\* the ids of the live memories without import, each once, ascending, and the
\* k-th record written is the record of the memory the k-th pushed id names.
C7_EmitIndexMapping ==
    call.op = "emit" =>
        LET pushed == call.cx.indices
            s == read_section(call.cx.encoder)
        IN  /\ pushed = Ascending(LocalIds)
            /\ pushed # <<>> =>
                   /\ s.ok /\ Len(s.records) = Len(pushed)
                   /\ \A k \in 1 .. Len(pushed) :
                          /\ get(arena, pushed[k]).ok
                          /\ s.records[k] = TableRecord(get(arena, pushed[k]).mem)

\* Emitted: an imported memory first, then two local ones of different shape.
C7_Witness ==
    /\ call.op = "emit"
    /\ call.cx.indices = <<1, 2>>
    /\ 0 \in LiveIds
    /\ TableRecord(arena[2][1]) # TableRecord(arena[3][1])
\* The 32 bits of a signed 32-bit number, as a u32.
u32_bits(v) == u32((v \div Half) % Half, v % Half)

SegmentsOf(id, kind) ==
    SelectSeq(segCalls, LAMBDA c : c.id = id /\ c.kind = kind)

\* C8 (segment group ordering): whatever the interleaving of the add_absolute
\* and add_relative calls, emit_data() yields the absolute segments in the order
\* of their calls and then the relative segments in the order of theirs, an
\* absolute one as the 32-bit constant of its position and a relative one as
\* the reference to its global, each with its payload unchanged; after
\* add_relative(g1, b1), add_absolute(p1, b2), add_relative(g2, b3) it yields
\* (Const(p1), b2), (Global(g1), b1), (Global(g2), b3).
C8_SegmentGroupOrdering ==
    call.op = "emit_data" =>
        LET abs == SegmentsOf(call.id, "absolute")
            rel == SegmentsOf(call.id, "relative")
            out == call.out
        IN  /\ Len(out) = Len(abs) + Len(rel)
            /\ \A k \in 1 .. Len(abs) :
                   /\ out[k][1].tag = "Value"
                   /\ u32_bits(out[k][1].val) = abs[k].base
                   /\ out[k][2] = abs[k].data
            /\ \A k \in 1 .. Len(rel) :
                   /\ out[Len(abs) + k][1] = InitExpr_Global(rel[k].base)
                   /\ out[Len(abs) + k][2] = rel[k].data

\* The calls were add_relative, add_absolute, add_relative, with different
\* globals and payloads, and emit_data gave the absolute segment first.
C8_Witness ==
    /\ call.op = "emit_data"
    /\ Len(segCalls) = 3
    /\ segCalls[1].kind = "relative" /\ segCalls[1].base = 0 /\ segCalls[1].data = <<>>
    /\ segCalls[2].kind = "absolute" /\ segCalls[2].base = u32(0, 16)
    /\ segCalls[2].data = <<1, 2>>
    /\ segCalls[3].kind = "relative" /\ segCalls[3].base = 1 /\ segCalls[3].data = <<1, 2>>
    /\ call.out = << <<InitExpr_Value(16), <<1, 2>> >>,
                     <<InitExpr_Global(0), <<>> >>,
                     <<InitExpr_Global(1), <<1, 2>> >> >>

ValidTags(section) == \A k \in 1 .. Len(section) : section[k].flags \in {0, 1, 3}

RoundTripped ==
    /\ read_section(call.cx.encoder).ok
    /\ read_section(call.cx.encoder).count = Len(loaded[1])
    /\ read_section(call.cx.encoder).records = loaded[1]

\* C9 as stated (round trip): a section of records with the tags 0x00, 0x01, 0x03,
\* parsed into an empty collection and emitted, comes back with the same count
\* and the same records (tag, initial, maximum) in the same order.
C9_RoundTrip_AsStated ==
    (call.op = "emit" /\ loaded # <<>> /\ ValidTags(loaded[1])) => RoundTripped

\* C9 (round trip, amended): the same for a section of at least one record; a
\* section of no record comes back as no bytes at all (no count is written).
C9_RoundTrip ==
    (call.op = "emit" /\ loaded # <<>> /\ ValidTags(loaded[1])) =>
        IF loaded[1] # <<>> THEN RoundTripped
        ELSE call.cx.encoder = <<>> /\ call.cx.sections = <<>>

\* A section of the three tags, with a two-byte initial, was parsed and emitted.
C9_Witness ==
    /\ call.op = "emit"
    /\ loaded = << << WireRecord(3, 128, Some(300)), WireRecord(0, 1, None),
                      WireRecord(1, 128, Some(300)) >> >>
    /\ call.cx.encoder = <<3, 3, 128, 1, 172, 2, 0, 1, 1, 128, 1, 172, 2>>

\* C10 (parse adapter mapping): a parse_memories that succeeds on n records adds
\* exactly n memories, by add_local and in section order, and appends their ids
\* to the index-mapping table in that order: the i-th pushed id resolves to a
\* memory with the shared, initial and maximum of the i-th record, no import
\* and empty initializer data.
C10_ParseMapping ==
    (call.op = "parse_memories" /\ call.ok) =>
        LET n == Len(call.section)
            base == Len(call.before)
        IN  /\ Len(arena) = call.was + n
            /\ Len(call.ids) = base + n
            /\ SubSeq(call.ids, 1, base) = call.before
            /\ \A i \in 1 .. n :
                   LET id == call.ids[base + i]
                       m == get(arena, id)
                       rec == read_memory_type(call.section[i])
                   IN  /\ id = call.was + i - 1
                       /\ id = returned[Len(returned) - n + i]
                       /\ m.ok
                       /\ m.mem.shared = rec.shared
                       /\ m.mem.initial = rec.initial
                       /\ m.mem.maximum = rec.maximum
                       /\ m.mem.import = None
                       /\ m.mem.data = MemoryData_default

\* Two records of different shape were parsed into a collection that held an
\* imported memory, whose id was in the table already.
C10_Witness ==
    /\ call.op = "parse_memories" /\ call.ok
    /\ call.before = <<0>>
    /\ call.ids = <<0, 1, 2>>
    /\ call.section[1].flags = 3
    /\ call.section[2].flags = 0
MalformedAt(section) == {k \in 1 .. Len(section) : ~read_memory_type(section[k]).ok}

FirstMalformed(section) ==
    CHOOSE k \in MalformedAt(section) : \A j \in MalformedAt(section) : k <= j

\* C11 (parse failure propagation): when a record of the section is malformed,
\* parse_memories returns the decode error of the first malformed record and
\* never success, and it stops there: no record from the malformed one on
\* becomes a memory or an entry of the index-mapping table.
C11_ParseFailurePropagation ==
    (call.op = "parse_memories" /\ MalformedAt(call.section) # {}) =>
        LET k == FirstMalformed(call.section)
        IN  /\ ~call.ok
            /\ call.error = Some(read_memory_type(call.section[k]).error)
            /\ Len(arena) <= call.was + (k - 1)
            /\ Len(call.ids) <= Len(call.before) + (k - 1)
            /\ Len(returned) <= call.was + (k - 1)

\* A section of a well-formed record, a malformed one, and a different malformed
\* one was parsed: the error is the second record's and one memory was added.
C11_Witness ==
    /\ call.op = "parse_memories"
    /\ call.section = <<WireRecord(3, 1, Some(300)), WireRecord(4, 128, None),
                        WireRecord(4, 1, None)>>
    /\ call.error = Some([malformed |-> WireRecord(4, 128, None)])
    /\ Len(arena) = 1
\* C12 (creation result): add_import returns an id whose record holds exactly
\* the given shared, initial, maximum and import reference with empty data;
\* add_local does the same with no import; the id reserved before the
\* allocation is the id the allocation hands out; and in every reachable state
\* the id stored in a live record is the id of its slot.
C12_CreationResult ==
    /\ call.op = "add_import" =>
           /\ get(arena, call.id) =
               [ok |-> TRUE,
                mem |-> Memory(call.id, call.shared, call.initial, call.maximum,
                               call.import, MemoryData_default)]
           /\ call.import # None
    /\ call.op = "add_local" =>
           /\ get(arena, call.id) =
               [ok |-> TRUE,
                mem |-> Memory(call.id, call.shared, call.initial, call.maximum,
                               None, MemoryData_default)]
    /\ next_id(arena) = arena_alloc(arena, Tombstoned).id
    /\ \A id \in LiveIds : get(arena, id).mem.id = id

\* An imported shared memory with a maximum was created after a deletion and
\* next to an older live memory.
C12_Witness ==
    /\ call.op = "add_import"
    /\ call.shared /\ call.maximum = Some(2)
    /\ call.id = 2
    /\ deleted = {0}
    /\ LiveIds = {1, 2}
\* C13 (deletion finalization): a delete of a live id tombstones its slot and
\* runs the finalization hook on the record, whose initializer data comes out
\* empty in both lists; no other slot changes, no slot is added or removed, and
\* the ids handed out before stay as they were (nothing that refers to the
\* deleted memory is cleaned up).
C13_DeletionFinalization ==
    [][(call'.op = "delete" /\ call'.ok) =>
           /\ arena_contains(arena, call'.id)
           /\ ~arena_contains(arena', call'.id)
           /\ arena'[call'.id + 1] = Tombstoned
           /\ call'.finalized = [absolute |-> <<>>, relative |-> <<>>]
           /\ Len(arena') = Len(arena)
           /\ \A j \in Ids \ {call'.id} : get(arena', j) = get(arena, j)
           /\ returned' = returned
           /\ segCalls' = segCalls]_vars

\* Memory 0, which had an absolute and a relative segment, was deleted while
\* memory 1 keeps its own segment.
C13_Witness ==
    /\ call.op = "delete" /\ call.ok /\ call.id = 0
    /\ SegmentsOf(0, "absolute") # <<>> /\ SegmentsOf(0, "relative") # <<>>
    /\ get(arena, 1).ok
    /\ get(arena, 1).mem.data # MemoryData_default
\* Position of an id in the order the creation calls handed ids out.
AllocationRank(id) == CHOOSE k \in 1 .. Len(returned) : returned[k] = id

\* C14 (live iteration order): in every reachable state iter() and iter_mut()
\* yield exactly the live memories, each once, the k-th being the record of the
\* k-th live slot in ascending id order, which is the order of allocation; no
\* tombstoned slot is yielded and the sequence is finite.
C14_LiveIterationOrder ==
    LET ids == Ascending(LiveIds)
    IN  /\ Len(iter(arena)) = Cardinality(LiveIds)
        /\ \A k \in 1 .. Len(ids) : iter(arena)[k] = arena[ids[k] + 1][1]
        /\ \A k, l \in 1 .. Len(iter(arena)) :
               k < l => /\ iter(arena)[k].id < iter(arena)[l].id
                        /\ AllocationRank(iter(arena)[k].id)
                               < AllocationRank(iter(arena)[l].id)
        /\ \A k \in 1 .. Len(iter(arena)) : iter(arena)[k].id \notin deleted
        /\ Len(iter_mut(arena)) = Cardinality(LiveIds)
        /\ \A k \in 1 .. Len(ids) : iter_mut(arena)[k] = arena[ids[k] + 1][1]

\* Three memories were created and the middle one deleted: the iteration has
\* the first and the third, in that order.
C14_Witness ==
    /\ Len(arena) = 3
    /\ deleted = {1}
    /\ Len(iter(arena)) = 2
    /\ iter(arena)[1].id = 0 /\ iter(arena)[2].id = 2
    /\ iter(arena)[1] # iter(arena)[2]
\* C15 (relative-global enumeration): globals() yields the global of each
\* relative segment, one per segment, in the order of the add_relative calls and
\* with repetitions kept; absolute segments contribute nothing, so data with
\* only absolute segments yields nothing.
C15_RelativeGlobals ==
    call.op = "globals" =>
        LET rel == SegmentsOf(call.id, "relative")
        IN  /\ Len(call.out) = Len(rel)
            /\ \A k \in 1 .. Len(rel) : call.out[k] = rel[k].base
            /\ (rel = <<>>) => call.out = <<>>

\* Two relative segments on the same global around an absolute one: the global
\* is yielded twice.
C15_Witness ==
    /\ call.op = "globals"
    /\ Len(segCalls) = 3
    /\ segCalls[1].kind = "relative" /\ segCalls[1].base = 1
    /\ segCalls[2].kind = "absolute"
    /\ segCalls[3].kind = "relative" /\ segCalls[3].base = 1
    /\ call.out = <<1, 1>>

\* C16 (emptiness test): is_empty() is true exactly when no absolute and no
\* relative segment is held: true for the data of a fresh memory, false after
\* any add_absolute or add_relative, whatever the payload, and true exactly when
\* emit_data() yields no pair.
C16_EmptinessTest ==
    call.op = "is_empty" =>
        /\ call.out = (SegmentsOf(call.id, "absolute") = <<>>
                           /\ SegmentsOf(call.id, "relative") = <<>>)
        /\ call.out = (get(arena, call.id).mem.data = MemoryData_default)
        /\ call.out = (emit_data(get(arena, call.id).mem) = <<>>)

\* The only segment is an absolute one with an empty payload, and is_empty()
\* answered false.
C16_Witness ==
    /\ call.op = "is_empty"
    /\ Len(segCalls) = 1
    /\ segCalls[1].kind = "absolute" /\ segCalls[1].data = <<>>
    /\ call.out = FALSE

\* The absolute segments that the call recorded in `call` worked on.
CallAbsolute ==
    IF call.op = "into_iter" THEN call.self.absolute
    ELSE get(arena, call.id).mem.data.absolute

\* C19 (offset conversion): emit_data() and into_iter() turn the position p of
\* an absolute segment into the constant p when p < 2^31 and p - 2^32 when
\* p >= 2^31: the constant has the bits of p (its value modulo 2^32 is p), and
\* segments at different positions get different constants.
C19_OffsetReinterpretation ==
    call.op \in {"emit_data", "into_iter"} =>
        /\ \A k \in 1 .. Len(CallAbsolute) :
               LET p == CallAbsolute[k][1]
                   v == call.out[k][1].val
               IN  /\ call.out[k][1].tag = "Value"
                   /\ p[1] < Half \div 2 => (v = p[1] * Half + p[2] /\ v >= 0)
                   /\ p[1] >= Half \div 2 => (v = (p[1] - Half) * Half + p[2] /\ v < 0)
                   /\ v >= -2147483647 - 1 /\ v <= 2147483647
                   /\ u32_bits(v) = p
        /\ \A k, l \in 1 .. Len(CallAbsolute) :
               CallAbsolute[k][1] # CallAbsolute[l][1] => call.out[k][1] # call.out[l][1]

\* Segments at 2^31 - 1, 2^31 and 2^32 - 1 were consumed by into_iter().
C19_Witness ==
    /\ call.op = "into_iter"
    /\ Len(call.self.absolute) = 3
    /\ call.self.absolute[1][1] = u32(Half \div 2 - 1, Half - 1)
    /\ call.self.absolute[2][1] = u32(Half \div 2, 0)
    /\ call.self.absolute[3][1] = u32(Half - 1, Half - 1)
    /\ call.out[1][1] = InitExpr_Value(2147483647)
    /\ call.out[2][1] = InitExpr_Value(-2147483647 - 1)
    /\ call.out[3][1] = InitExpr_Value(-1)

\* C20 (agreement of the two iterations): into_iter() on a MemoryData yields the
\* sequence of (offset expression, payload) pairs that emit_data() yields for a
\* memory holding that data: same length, same pairs, same order.
C20_IterationAgreement ==
    call.op = "into_iter" =>
        LET borrowed == emit_data(Memory(call.id, FALSE, 1, None, None, call.self))
        IN  /\ Len(call.out) = Len(borrowed)
            /\ \A k \in 1 .. Len(borrowed) : call.out[k] = borrowed[k]

\* Data built by add_relative, add_absolute, add_relative was consumed.
C20_Witness ==
    /\ call.op = "into_iter"
    /\ Len(call.self.absolute) = 1 /\ Len(call.self.relative) = 2
    /\ call.self.relative[1] # call.self.relative[2]
    /\ call.self.absolute[1][2] # <<>>
    /\ Len(call.out) = 3
    /\ get(arena, call.id).mem.data = MemoryData_default
\* The collection with the shared flag of every live memory that has no
\* maximum cleared.
Unshared(a) ==
    [k \in 1 .. Len(a) |->
        IF a[k] # Tombstoned /\ a[k][1].maximum = None
        THEN <<[a[k][1] EXCEPT !.shared = FALSE]>>
        ELSE a[k]]

\* C17 (shared without maximum): a memory with shared = true and no maximum is
\* emitted as the tag 0x00 followed by initial, byte for byte what the same
\* memory with shared = false is emitted as, and a collection emits the section
\* it would emit with the shared flags of its maximum-less memories cleared.
C17_SharedIgnoredWithoutMaximum ==
    /\ (call.op = "emit_memory" /\ get(arena, call.id).mem.maximum = None) =>
           LET m == get(arena, call.id).mem
               bytes == call.cx.encoder
           IN  /\ bytes = <<0>> \o leb128(m.initial)
               /\ call.cx = Memory_emit([m EXCEPT !.shared = FALSE], EmitContext_new)
    /\ call.op = "emit" =>
           call.cx = ModuleMemories_emit(Unshared(arena), EmitContext_new)

\* A shared local memory of 128 pages without maximum was emitted as a section.
C17_Witness ==
    /\ call.op = "emit"
    /\ get(arena, 0).ok
    /\ get(arena, 0).mem.shared
    /\ get(arena, 0).mem.maximum = None
    /\ get(arena, 0).mem.import = None
    /\ get(arena, 0).mem.initial = 128
    /\ call.cx.encoder = <<1, 0, 128, 1>>
\* C18 (partial state after a parse failure): when parse_memories fails at the
\* record of 0-based position k, the k memories made from the records before it
\* are live in the collection, in new slots after the ones that were there, each
\* with its record's shared, initial and maximum, and their ids are the k
\* entries appended to the index-mapping table; nothing is rolled back.
C18_PartialStateAfterFailure ==
    (call.op = "parse_memories" /\ ~call.ok) =>
        /\ MalformedAt(call.section) # {}
        /\ LET k == FirstMalformed(call.section) - 1
               base == Len(call.before)
           IN  /\ Len(arena) = call.was + k
               /\ Len(call.ids) = base + k
               /\ SubSeq(call.ids, 1, base) = call.before
               /\ \A i \in 1 .. k :
                      LET id == call.ids[base + i]
                          rec == read_memory_type(call.section[i])
                      IN  /\ id = call.was + i - 1
                          /\ get(arena, id) =
                                 [ok |-> TRUE,
                                  mem |-> Memory(id, rec.shared, rec.initial,
                                                 rec.maximum, None, MemoryData_default)]

\* A collection of one memory, deleted since, parsed a section whose second
\* record is malformed: the memory of the first record is there.
C18_Witness ==
    /\ call.op = "parse_memories" /\ ~call.ok
    /\ call.was = 1 /\ deleted = {0}
    /\ Len(call.section) = 2
    /\ FirstMalformed(call.section) = 2
    /\ LiveIds = {1}
    /\ get(arena, 1).mem.shared
    /\ call.ids = <<1>>

====
